---- MODULE Spec2Model ----
(***************************************************************************)
(* A model of gonc, a NETCONF client over SSH.                             *)
(*                                                                         *)
(* The Endpoint type (Connect, cliLogin, Run, Disconnect) and the client   *)
(* run that drives it (runNetconfClient) are modelled as a state machine   *)
(* whose steps are the calls the code makes on the SSH transport: dial,    *)
(* open a session, request the subsystem, write a message, read a chunk,   *)
(* close.  The transport and the peer are the environment: every call can  *)
(* succeed or fail, and a read can return any prefix of what the peer has  *)
(* still to deliver.                                                       *)
(*                                                                         *)
(* Bytes are one-character strings; a text is a sequence of bytes.         *)
(***************************************************************************)
EXTENDS Integers, Sequences, FiniteSets, TLC

VARIABLES
    pc,            \* position of the program
    caller,        \* the call site of the Run in progress
    arg,           \* Run's parameter arg
    SshIn,         \* Endpoint.SshIn: the messages written to the outbound stream, in order
    SshOut,        \* Endpoint.SshOut: the bytes the peer has still to deliver
    SshOutEOF,     \* the inbound stream has reported end-of-stream
    peerSent,      \* every byte the peer delivers on the inbound stream over the session
    loopStart,     \* number of inbound bytes consumed before the current read loop began
    responseBuf,   \* the read loop's local responseBuf
    readErr,       \* err of the read loop's last Read
    readN,         \* n of the read loop's last Read
    readLoops,     \* number of read loops begun so far
    reply,         \* what the last Run returned: text, error and call site
    exitAt,        \* where log.Fatal* ended the process, "" while it runs
    Ip,            \* Endpoint.Ip
    Port,          \* Endpoint.Port
    Client,        \* Endpoint.Client: "none", "open" or "closed"
    Session,       \* Endpoint.Session: "none", "open" or "closed"
    Capabilities,  \* Endpoint.Capabilities
    connectErr,    \* what Connect returned: an error, or kind "nil", or "pending"
    result,        \* what runNetconfClient returned: text and error
    filter,        \* config.Filter
    xmlData,       \* enhancedFilter's xmlData: the tokens its decoder delivers before it fails
    parsed,        \* what parseXPathFilter returned: predicate, path and err
    pos,           \* number of tokens the decoder has delivered
    output,        \* enhancedFilter's output buffer: the pieces written, in order
    currentChannel,\* enhancedFilter's currentChannel buffer
    inChannel,     \* enhancedFilter's inChannel
    keepChannel,   \* enhancedFilter's keepChannel
    depth,         \* enhancedFilter's depth
    stack,         \* enhancedFilter's stack: the names of the start tags copied and not closed
    mainOutput     \* main's output

vars == <<pc, caller, arg, SshIn, SshOut, SshOutEOF, peerSent, loopStart,
          responseBuf, readErr, readN, readLoops, reply, exitAt, Ip, Port,
          Client, Session, Capabilities, connectErr, result,
          filter, xmlData, parsed, pos, output, currentChannel, inChannel,
          keepChannel, depth, stack, mainOutput>>

\* the locals of the read loop in progress
loop == <<loopStart, responseBuf, readErr, readN, readLoops>>

\* the Endpoint's fields and the client's results, untouched by Run
endpoint == <<Ip, Port, Client, Session, Capabilities, connectErr, result>>

\* main's filter and output and the locals of enhancedFilter, untouched by
\* the Endpoint
filterVars == <<filter, xmlData, parsed, pos, output, currentChannel,
                inChannel, keepChannel, depth, stack, mainOutput>>

\* everything but the position and the exit that the filter leaves alone
clientVars == <<caller, arg, SshIn, SshOut, SshOutEOF, peerSent, loopStart,
                responseBuf, readErr, readN, readLoops, reply, Ip, Port,
                Client, Session, Capabilities, connectErr, result>>

----------------------------------------------------------------------------
(* Bounds of the model *)

\* longest payload handed to Run, in pieces
MaxPayloadPieces == 4
\* longest scripted inbound stream of a single Run, in pieces
MaxStreamPieces == 4
\* longest inbound stream of a whole client run, in messages
MaxPeerMessages == 4

----------------------------------------------------------------------------
(* Texts *)

Min(a, b) == IF a < b THEN a ELSE b

\* the six-character end-of-message marker "]]>]]>"
delimiter == <<"]", "]", ">", "]", "]", ">">>

\* strings.Contains / bytes.Contains
Contains(s, sub) ==
    \E i \in 1..(Len(s) - Len(sub) + 1) : SubSeq(s, i, i + Len(sub) - 1) = sub

\* strings.HasSuffix
HasSuffix(s, suf) ==
    /\ Len(s) >= Len(suf)
    /\ SubSeq(s, Len(s) - Len(suf) + 1, Len(s)) = suf

Take(s, n) == SubSeq(s, 1, n)
Drop(s, n) == SubSeq(s, n + 1, Len(s))

\* the texts made of at most k pieces
RECURSIVE TextsOf(_, _)
TextsOf(pieces, k) ==
    IF k = 0 THEN { <<>> }
    ELSE TextsOf(pieces, k - 1)
         \cup { t \o p : t \in TextsOf(pieces, k - 1), p \in pieces }

\* the pieces a single Run's texts are built from: a byte and half a sentinel
Pieces == { <<"a">>, <<"]", "]", ">">> }

Texts(k) == TextsOf(Pieces, k)

\* the messages a peer sends over a client run: a body byte and a sentinel
PeerMessages == { <<"a">>, delimiter }

\* strings.Split(s, sep) for a one-byte separator
RECURSIVE Split(_, _)
Split(s, sep) ==
    IF \A i \in 1..Len(s) : s[i] # sep THEN << s >>
    ELSE LET i == CHOOSE j \in 1..Len(s) :
                     s[j] = sep /\ \A k \in 1..(j - 1) : s[k] # sep
         IN  << Take(s, i - 1) >> \o Split(Drop(s, i), sep)

Digits == {"0", "1", "2", "3", "4", "5", "6", "7", "8", "9"}

DigitVal(c) ==
    CASE c = "0" -> 0 [] c = "1" -> 1 [] c = "2" -> 2 [] c = "3" -> 3
      [] c = "4" -> 4 [] c = "5" -> 5 [] c = "6" -> 6 [] c = "7" -> 7
      [] c = "8" -> 8 [] c = "9" -> 9

RECURSIVE DecVal(_)
DecVal(ds) ==
    IF ds = <<>> THEN 0
    ELSE 10 * DecVal(Take(ds, Len(ds) - 1)) + DigitVal(ds[Len(ds)])

\* strconv.Atoi: an optional sign and one or more decimal digits
Atoi(s) ==
    LET signed == s # <<>> /\ s[1] \in {"+", "-"}
        ds     == IF signed THEN Drop(s, 1) ELSE s
    IN  IF ds = <<>> \/ \E i \in 1..Len(ds) : ds[i] \notin Digits
        THEN [err |-> TRUE, num |-> 0]
        ELSE [err |-> FALSE,
              num |-> IF signed /\ s[1] = "-" THEN 0 - DecVal(ds) ELSE DecVal(ds)]

\* strings.Join(lines, sep)
RECURSIVE Join(_, _)
Join(lines, sep) ==
    IF lines = <<>> THEN <<>>
    ELSE IF Len(lines) = 1 THEN lines[1]
    ELSE lines[1] \o <<sep>> \o Join(Drop(lines, 1), sep)

WhiteSpace == {" ", "\t", "\n", "\r"}

\* strings.TrimSpace(line) != ""
NotBlank(line) == \E i \in 1..Len(line) : line[i] \notin WhiteSpace

\* formatXML: every byte is copied as it is (the indent counter is never
\* used), then the lines that are empty or blank are dropped
formatXML(data) ==
    Join(SelectSeq(Split(data, "\n"), NotBlank), "\n")

----------------------------------------------------------------------------
(* The filter expression *)

\* strings.Trim(s, cutset)
Trim(s, cutset) ==
    LET kept == { i \in 1..Len(s) : s[i] \notin cutset }
    IN  IF kept = {} THEN <<>>
        ELSE SubSeq(s, CHOOSE i \in kept : \A j \in kept : i <= j,
                       CHOOSE i \in kept : \A j \in kept : i >= j)

\* strings.Index(s, c) for a one-byte c: the bytes before the first c, or -1
Index(s, c) ==
    IF \A i \in 1..Len(s) : s[i] # c THEN -1
    ELSE (CHOOSE i \in 1..Len(s) : s[i] = c /\ \A k \in 1..(i - 1) : s[k] # c) - 1

\* strings.HasPrefix(s, prefix)
HasPrefix(s, prefix) ==
    /\ Len(s) >= Len(prefix)
    /\ Take(s, Len(prefix)) = prefix

\* strings.TrimPrefix(s, prefix)
TrimPrefix(s, prefix) == IF HasPrefix(s, prefix) THEN Drop(s, Len(prefix)) ELSE s

\* strings.TrimSuffix(s, suffix)
TrimSuffix(s, suffix) ==
    IF HasSuffix(s, suffix) THEN Take(s, Len(s) - Len(suffix)) ELSE s

\* strings.SplitN(s, sep, 2) for a one-byte separator
SplitN2(s, sep) ==
    IF Index(s, sep) = -1 THEN << s >>
    ELSE << Take(s, Index(s, sep)), Drop(s, Index(s, sep) + 1) >>

\* "start-with("
startWith == <<"s", "t", "a", "r", "t", "-", "w", "i", "t", "h", "(">>

\* what parseXPathFilter returns without a predicate and a path
ParseError(err) == [predicate |-> <<>>, path |-> <<>>, err |-> err]

parseXPathFilter(f) ==
    LET trimmed      == Trim(f, {"/", " "})
        startIdx     == Index(trimmed, "[")
        pathStr      == Take(trimmed, startIdx)
        path         == Split(pathStr, "/")
        predicateStr == Trim(Drop(trimmed, startIdx), {"[", "]"})
        argsStr      == TrimSuffix(TrimPrefix(predicateStr, startWith), <<")">>)
        predicate    == SplitN2(argsStr, ",")
    IN  IF startIdx = -1 THEN ParseError("no predicate found in filter")
        ELSE IF Len(path) = 0 THEN ParseError("empty path")
        ELSE IF HasPrefix(predicateStr, startWith)
             THEN IF Len(predicate) # 2
                  THEN ParseError("invalid start-with predicate")
                  ELSE [predicate |-> << predicate[1],
                                         Trim(predicate[2], {"'", "\""}) >>,
                        path |-> path, err |-> "nil"]
             ELSE [predicate |-> << predicateStr >>, path |-> path,
                   err |-> "nil"]

----------------------------------------------------------------------------
(* Validation of the Endpoint *)

\* validateIpAddress without the test for negative segments
validateIpAddress_NoLowerBound(ip) ==
    LET ipSegments == Split(ip, ".")
    IN  IF Len(ipSegments) # 4 THEN "not formatted properly"
        ELSE IF \E i \in 1..4 :
                   \/ Atoi(ipSegments[i]).err
                   \/ Atoi(ipSegments[i]).num > 255
             THEN "wrong values"
             ELSE "nil"

validateIpAddress(ip) ==
    LET ipSegments == Split(ip, ".")
    IN  IF Len(ipSegments) # 4 THEN "not formatted properly"
        ELSE IF \E i \in 1..4 :
                   \/ Atoi(ipSegments[i]).err
                   \/ Atoi(ipSegments[i]).num < 0
                   \/ Atoi(ipSegments[i]).num > 255
             THEN "wrong values"
             ELSE "nil"

\* s.Port = "22"
DefaultPort == <<"2", "2">>

\* validateNode: the error it returns and the port it leaves in the Endpoint
\* (s.Timeout = 30 only sets the dial's timeout and is left out)
validateNode(ip, port) ==
    IF validateIpAddress(ip) # "nil"
    THEN [err |-> validateIpAddress(ip), Port |-> port]
    ELSE [err |-> "nil",
          Port |-> IF Atoi(port).err THEN DefaultPort ELSE port]

----------------------------------------------------------------------------
(* The transport *)

\* buf := make([]byte, 1024)
BufLen == 1024

\* The outcomes of one SshOut.Read(buf): n bytes and an error.  A read returns
\* at most len(buf) of the bytes the peer has still to deliver; end-of-stream
\* comes with or after the last byte and is then repeated; a fault can come
\* at any time.
ReadOutcomes(stream, closed) ==
    IF closed THEN { [n |-> 0, err |-> "EOF"] }
    ELSE { [n |-> k, err |-> e] :
             k \in 0..Min(BufLen, Len(stream)), e \in {"nil", "fault"} }
         \cup { [n |-> k, err |-> "EOF"] : k \in { Len(stream) } \cap 0..BufLen }

\* The outcomes of one SshIn.Write
WriteOutcomes == {"nil", "fault"}

----------------------------------------------------------------------------
(* Endpoint.Run *)

\* log.Fatalf: the process ends where it stands
Fatal(where) ==
    /\ pc' = "exited"
    /\ exitAt' = where

\* RunArg with a suffix check in place of the substring check
RunArg_SuffixCheck(a) == IF ~HasSuffix(a, delimiter) THEN a \o delimiter ELSE a

\* RunArg without the check: the sentinel is always appended
RunArg_AlwaysAppend(a) == a \o delimiter

\* if !strings.Contains(arg, "]]>]]>") { arg = arg + "]]>]]>" }
RunArg(a) == IF ~Contains(a, delimiter) THEN a \o delimiter ELSE a

\* ReadStep looking for the sentinel in the chunk just read only
ReadStep_ChunkOnly(buf, chunk, n, err) ==
    IF err # "nil" /\ err # "EOF"
    THEN [buf |-> buf, fatal |-> TRUE, done |-> FALSE]
    ELSE LET nbuf == IF n > 0 THEN buf \o chunk ELSE buf
         IN  [buf   |-> nbuf,
              fatal |-> FALSE,
              done  |-> (n > 0 /\ Contains(chunk, delimiter)) \/ err = "EOF"]

\* ReadStep testing for end-of-stream before it keeps the bytes read
ReadStep_EOFFirst(buf, chunk, n, err) ==
    IF err # "nil" /\ err # "EOF"
    THEN [buf |-> buf, fatal |-> TRUE, done |-> FALSE]
    ELSE IF err = "EOF"
    THEN [buf |-> buf, fatal |-> FALSE, done |-> TRUE]
    ELSE LET nbuf == IF n > 0 THEN buf \o chunk ELSE buf
         IN  [buf   |-> nbuf,
              fatal |-> FALSE,
              done  |-> n > 0 /\ Contains(nbuf, delimiter)]

\* ReadStep leaving the loop after any read that brought bytes
ReadStep_AnyData(buf, chunk, n, err) ==
    IF err # "nil" /\ err # "EOF"
    THEN [buf |-> buf, fatal |-> TRUE, done |-> FALSE]
    ELSE LET nbuf == IF n > 0 THEN buf \o chunk ELSE buf
         IN  [buf |-> nbuf, fatal |-> FALSE, done |-> n > 0 \/ err = "EOF"]

\* ReadStep without the break at end-of-stream
ReadStep_NoEOFBreak(buf, chunk, n, err) ==
    IF err # "nil" /\ err # "EOF"
    THEN [buf |-> buf, fatal |-> TRUE, done |-> FALSE]
    ELSE LET nbuf == IF n > 0 THEN buf \o chunk ELSE buf
         IN  [buf   |-> nbuf,
              fatal |-> FALSE,
              done  |-> n > 0 /\ Contains(nbuf, delimiter)]

\* One iteration of the read loop, given the Read's result: the new buffer,
\* whether the process is ended, and whether the loop breaks.
ReadStep(buf, chunk, n, err) ==
    IF err # "nil" /\ err # "EOF"
    THEN [buf |-> buf, fatal |-> TRUE, done |-> FALSE]
    ELSE LET nbuf == IF n > 0 THEN buf \o chunk ELSE buf
         IN  [buf   |-> nbuf,
              fatal |-> FALSE,
              done  |-> (n > 0 /\ Contains(nbuf, delimiter)) \/ err = "EOF"]

\* One iteration of cliLogin's read loop: the same statements as Run's
LoginReadStep(buf, chunk, n, err) ==
    IF err # "nil" /\ err # "EOF"
    THEN [buf |-> buf, fatal |-> TRUE, done |-> FALSE]
    ELSE LET nbuf == IF n > 0 THEN buf \o chunk ELSE buf
         IN  [buf   |-> nbuf,
              fatal |-> FALSE,
              done  |-> (n > 0 /\ Contains(nbuf, delimiter)) \/ err = "EOF"]

\* arg is completed and written to the outbound stream
Run_Write ==
    /\ pc = "Run_write"
    /\ \E werr \in WriteOutcomes :
         IF werr # "nil"
         THEN /\ Fatal("Run")
              /\ UNCHANGED <<SshIn, loop>>
         ELSE /\ SshIn' = Append(SshIn, [by |-> caller, data |-> RunArg(arg)])
              /\ responseBuf' = <<>>
              /\ loopStart' = Len(peerSent) - Len(SshOut)
              /\ readErr' = "nil"
              /\ readN' = 0
              /\ readLoops' = readLoops + 1
              /\ pc' = "Run_read"
              /\ UNCHANGED exitAt
    /\ UNCHANGED filterVars
    /\ UNCHANGED <<caller, arg, SshOut, SshOutEOF, peerSent, reply,
                   endpoint>>

\* one iteration of Run's read loop
Run_Read ==
    /\ pc = "Run_read"
    /\ \E r \in ReadOutcomes(SshOut, SshOutEOF) :
         LET st == ReadStep(responseBuf, Take(SshOut, r.n), r.n, r.err)
         IN  /\ SshOut' = Drop(SshOut, r.n)
             /\ SshOutEOF' = (SshOutEOF \/ r.err = "EOF")
             /\ readErr' = r.err
             /\ readN' = r.n
             /\ responseBuf' = st.buf
             /\ IF st.fatal
                THEN Fatal("Run")
                ELSE /\ pc' = IF st.done THEN "Run_ret" ELSE "Run_read"
                     /\ UNCHANGED exitAt
    /\ UNCHANGED filterVars
    /\ UNCHANGED <<caller, arg, SshIn, peerSent, loopStart, readLoops, reply,
                   endpoint>>

\* Where the program goes on when Run returns to its call site: Connect
\* returns nil to runNetconfClient, runNetconfClient returns (and its deferred
\* Disconnect starts), Disconnect closes the session.
AfterRun(site) ==
    CASE site = "Connect"          -> "WriteCapabilities"
      [] site = "runNetconfClient" -> "Disconnect"
      [] site = "Disconnect"       -> "Session_Close"
      [] OTHER                     -> "done"

\* return responseBuf.String(), nil
Run_Return ==
    /\ pc = "Run_ret"
    /\ reply' = [text |-> responseBuf, err |-> "nil", to |-> caller]
    /\ pc' = AfterRun(caller)
    /\ caller' = "none"
    /\ connectErr' = IF caller = "Connect" THEN [kind |-> "nil"] ELSE connectErr
    /\ result' = IF caller = "runNetconfClient"
                 THEN [text |-> formatXML(responseBuf), err |-> "nil"]
                 ELSE result
    /\ UNCHANGED filterVars
    /\ UNCHANGED <<arg, SshIn, SshOut, SshOutEOF, peerSent, loop, exitAt, Ip,
                   Port, Client, Session, Capabilities>>

----------------------------------------------------------------------------
(* Endpoint.Connect and Endpoint.cliLogin *)

\* the fixed messages; of each body only one byte is kept, the sentinel whole
helloMsg == <<"H">> \o delimiter
helloPayload == <<"h">> \o delimiter
closePayload == <<"c">> \o delimiter

\* fmt.Errorf("%v:%v - %v", s.Ip, s.Port, ...): an error naming host and port
HostPortError(kind) == [kind |-> kind, ip |-> Ip, port |-> Port]

\* if err := validateNode(s); err != nil { return err }
Connect_Validate ==
    /\ pc = "Connect"
    /\ LET v == validateNode(Ip, Port)
       IN  /\ Port' = v.Port
           /\ IF v.err # "nil"
              THEN /\ connectErr' = [kind |-> v.err]
                   /\ pc' = "Connect_failed"
              ELSE /\ pc' = "Dial"
                   /\ UNCHANGED connectErr
    /\ UNCHANGED filterVars
    /\ UNCHANGED <<caller, arg, SshIn, SshOut, SshOutEOF, peerSent, loop,
                   reply, exitAt, Ip, Client, Session, Capabilities, result>>

\* s.Client, err = ssh.Dial("tcp", ...); on success the peer is there, with
\* the bytes it is going to send on the session's channel
Connect_Dial ==
    /\ pc = "Dial"
    /\ \E ok \in BOOLEAN :
         IF ok
         THEN /\ Client' = "open"
              /\ peerSent' \in TextsOf(PeerMessages, MaxPeerMessages)
              /\ SshOut' = peerSent'
              /\ pc' = "NewSession"
              /\ UNCHANGED connectErr
         ELSE /\ connectErr' = HostPortError("dial")
              /\ pc' = "Connect_failed"
              /\ UNCHANGED <<Client, peerSent, SshOut>>
    /\ UNCHANGED filterVars
    /\ UNCHANGED <<caller, arg, SshIn, SshOutEOF, loop, reply, exitAt, Ip,
                   Port, Session, Capabilities, result>>

\* s.Session, err = s.Client.NewSession()
cliLogin_NewSession ==
    /\ pc = "NewSession"
    /\ \E ok \in BOOLEAN :
         IF ok
         THEN /\ Session' = "open"
              /\ pc' = "RequestSubsystem"
              /\ UNCHANGED connectErr
         ELSE /\ connectErr' = HostPortError("session")
              /\ pc' = "Connect_failed"
              /\ UNCHANGED Session
    /\ UNCHANGED filterVars
    /\ UNCHANGED <<caller, arg, SshIn, SshOut, SshOutEOF, peerSent, loop,
                   reply, exitAt, Ip, Port, Client, Capabilities, result>>

\* err = s.Session.RequestSubsystem("netconf")
cliLogin_RequestSubsystem ==
    /\ pc = "RequestSubsystem"
    /\ \E ok \in BOOLEAN :
         IF ok
         THEN /\ pc' = "Pipes"
              /\ UNCHANGED exitAt
         ELSE Fatal("cliLogin: subsystem refused")
    /\ UNCHANGED filterVars
    /\ UNCHANGED <<caller, arg, SshIn, SshOut, SshOutEOF, peerSent, loop,
                   reply, endpoint>>

\* s.SshIn, err = s.Session.StdinPipe(); s.SshOut, err = s.Session.StdoutPipe()
cliLogin_Pipes ==
    /\ pc = "Pipes"
    /\ \E err \in {"nil", "stdin", "stdout"} :
         IF err = "nil"
         THEN /\ pc' = "cliLogin_write"
              /\ UNCHANGED exitAt
         ELSE Fatal("cliLogin: " \o err)
    /\ UNCHANGED filterVars
    /\ UNCHANGED <<caller, arg, SshIn, SshOut, SshOutEOF, peerSent, loop,
                   reply, endpoint>>

\* _, err = s.SshIn.Write([]byte(helloMsg))
cliLogin_Write ==
    /\ pc = "cliLogin_write"
    /\ \E werr \in WriteOutcomes :
         IF werr # "nil"
         THEN /\ Fatal("cliLogin: write")
              /\ UNCHANGED <<SshIn, loop>>
         ELSE /\ SshIn' = Append(SshIn, [by |-> "cliLogin", data |-> helloMsg])
              /\ responseBuf' = <<>>
              /\ loopStart' = Len(peerSent) - Len(SshOut)
              /\ readErr' = "nil"
              /\ readN' = 0
              /\ readLoops' = readLoops + 1
              /\ pc' = "cliLogin_read"
              /\ UNCHANGED exitAt
    /\ UNCHANGED filterVars
    /\ UNCHANGED <<caller, arg, SshOut, SshOutEOF, peerSent, reply,
                   endpoint>>

\* one iteration of cliLogin's read loop
cliLogin_Read ==
    /\ pc = "cliLogin_read"
    /\ \E r \in ReadOutcomes(SshOut, SshOutEOF) :
         LET st == LoginReadStep(responseBuf, Take(SshOut, r.n), r.n, r.err)
         IN  /\ SshOut' = Drop(SshOut, r.n)
             /\ SshOutEOF' = (SshOutEOF \/ r.err = "EOF")
             /\ readErr' = r.err
             /\ readN' = r.n
             /\ responseBuf' = st.buf
             /\ IF st.fatal
                THEN Fatal("cliLogin: read")
                ELSE /\ pc' = IF st.done THEN "cliLogin_ret" ELSE "cliLogin_read"
                     /\ UNCHANGED exitAt
    /\ UNCHANGED filterVars
    /\ UNCHANGED <<caller, arg, SshIn, peerSent, loopStart, readLoops, reply,
                   endpoint>>

\* cliLogin_Return keeping the reply without its sentinel
cliLogin_Return_Trimmed ==
    /\ pc = "cliLogin_ret"
    /\ Capabilities' = IF HasSuffix(responseBuf, delimiter)
                       THEN Take(responseBuf, Len(responseBuf) - Len(delimiter))
                       ELSE responseBuf
    /\ pc' = "Connect_hello"
    /\ UNCHANGED filterVars
    /\ UNCHANGED <<caller, arg, SshIn, SshOut, SshOutEOF, peerSent, loop,
                   reply, exitAt, Ip, Port, Client, Session, connectErr,
                   result>>

\* s.Capabilities = responseBuf.String(); return nil
cliLogin_Return ==
    /\ pc = "cliLogin_ret"
    /\ Capabilities' = responseBuf
    /\ pc' = "Connect_hello"
    /\ UNCHANGED filterVars
    /\ UNCHANGED <<caller, arg, SshIn, SshOut, SshOutEOF, peerSent, loop,
                   reply, exitAt, Ip, Port, Client, Session, connectErr,
                   result>>

\* s.Run(helloPayload); return nil
Connect_Hello ==
    /\ pc = "Connect_hello"
    /\ arg' = helloPayload
    /\ caller' = "Connect"
    /\ pc' = "Run_write"
    /\ UNCHANGED filterVars
    /\ UNCHANGED <<SshIn, SshOut, SshOutEOF, peerSent, loop, reply, exitAt,
                   endpoint>>

----------------------------------------------------------------------------
(* Endpoint.Disconnect *)

\* Disconnect closing the channel before it sends the close request
Disconnect_Run_CloseFirst ==
    /\ pc = "Disconnect"
    /\ Session' = "closed"
    /\ arg' = closePayload
    /\ caller' = "Disconnect"
    /\ pc' = "Run_write"
    /\ UNCHANGED filterVars
    /\ UNCHANGED <<SshIn, SshOut, SshOutEOF, peerSent, loop, reply, exitAt,
                   Ip, Port, Client, Capabilities, connectErr, result>>

\* Disconnect closing without the close request
Disconnect_Run_NoRequest ==
    /\ pc = "Disconnect"
    /\ pc' = "Session_Close"
    /\ UNCHANGED filterVars
    /\ UNCHANGED <<caller, arg, SshIn, SshOut, SshOutEOF, peerSent, loop,
                   reply, exitAt, endpoint>>

\* s.Run(closePayload)
Disconnect_Run ==
    /\ pc = "Disconnect"
    /\ arg' = closePayload
    /\ caller' = "Disconnect"
    /\ pc' = "Run_write"
    /\ UNCHANGED filterVars
    /\ UNCHANGED <<SshIn, SshOut, SshOutEOF, peerSent, loop, reply, exitAt,
                   endpoint>>

\* s.Session.Close()
Disconnect_SessionClose ==
    /\ pc = "Session_Close"
    /\ Session' = "closed"
    /\ pc' = "Client_Close"
    /\ UNCHANGED filterVars
    /\ UNCHANGED <<caller, arg, SshIn, SshOut, SshOutEOF, peerSent, loop,
                   reply, exitAt, Ip, Port, Client, Capabilities, connectErr,
                   result>>

\* s.Client.Close(); runNetconfClient has returned
Disconnect_ClientClose ==
    /\ pc = "Client_Close"
    /\ Client' = "closed"
    /\ pc' = "returned"
    /\ UNCHANGED filterVars
    /\ UNCHANGED <<caller, arg, SshIn, SshOut, SshOutEOF, peerSent, loop,
                   reply, exitAt, Ip, Port, Session, Capabilities,
                   connectErr, result>>

----------------------------------------------------------------------------
(* runNetconfClient *)

\* the payloads getRPCPayload hands to Run: without and with the sentinel
RpcPayloads == { <<"r">>, <<"r">> \o delimiter }

\* if err := ncEndPoint.Connect(); err != nil { log.Fatalln(err) }
Client_ConnectFailed ==
    /\ pc = "Connect_failed"
    /\ Fatal("runNetconfClient")
    /\ UNCHANGED filterVars
    /\ UNCHANGED <<caller, arg, SshIn, SshOut, SshOutEOF, peerSent, loop,
                   reply, endpoint>>

\* os.WriteFile(config.IP+"_capabilities.xml", ...); on failure
\* runNetconfClient returns the error and its deferred Disconnect runs
Client_WriteCapabilities ==
    /\ pc = "WriteCapabilities"
    /\ \E ok \in BOOLEAN :
         IF ok
         THEN /\ pc' = "getRPCPayload"
              /\ UNCHANGED result
         ELSE /\ result' = [text |-> <<>>, err |-> "failed to write response to file"]
              /\ pc' = "Disconnect"
    /\ UNCHANGED filterVars
    /\ UNCHANGED <<caller, arg, SshIn, SshOut, SshOutEOF, peerSent, loop,
                   reply, exitAt, Ip, Port, Client, Session, Capabilities,
                   connectErr>>

\* rpc, err := getRPCPayload(config); reply, err := ncEndPoint.Run(rpc)
Client_GetRPCPayload ==
    /\ pc = "getRPCPayload"
    /\ \E ok \in BOOLEAN :
         IF ok
         THEN /\ arg' \in RpcPayloads
              /\ caller' = "runNetconfClient"
              /\ pc' = "Run_write"
              /\ UNCHANGED result
         ELSE /\ result' = [text |-> <<>>, err |-> "failed to get RPC payload"]
              /\ pc' = "Disconnect"
              /\ UNCHANGED <<arg, caller>>
    /\ UNCHANGED filterVars
    /\ UNCHANGED <<SshIn, SshOut, SshOutEOF, peerSent, loop, reply, exitAt,
                   Ip, Port, Client, Session, Capabilities, connectErr>>

----------------------------------------------------------------------------
(* A client run: runNetconfClient on a fresh Endpoint *)

IpInputs ==
    { <<"1", ".", "2", ".", "3", ".", "4">>,
      <<"1", ".", "2", ".", "3", ".", "2", "5", "6">>,
      <<"1", ".", "2", ".", "3">>,
      <<"1", ".", "2", ".", "3", ".", "x">> }

PortInputs == { <<"8", "3", "0">>, <<"x">> }

\* main before it has a reply to filter
FilterNotStarted ==
    /\ filter = <<>>
    /\ xmlData = <<>>
    /\ parsed = [predicate |-> <<>>, path |-> <<>>, err |-> "none"]
    /\ pos = 0
    /\ output = <<>>
    /\ currentChannel = <<>>
    /\ inChannel = FALSE
    /\ keepChannel = FALSE
    /\ depth = 0
    /\ stack = <<>>
    /\ mainOutput = <<>>

Init ==
    /\ pc = "Connect"
    /\ caller = "none"
    /\ arg = <<>>
    /\ SshIn = <<>>
    /\ SshOut = <<>>
    /\ SshOutEOF = FALSE
    /\ peerSent = <<>>
    /\ loopStart = 0
    /\ responseBuf = <<>>
    /\ readErr = "nil"
    /\ readN = 0
    /\ readLoops = 0
    /\ reply = [text |-> <<>>, err |-> "none", to |-> "none"]
    /\ exitAt = ""
    /\ Ip \in IpInputs
    /\ Port \in PortInputs
    /\ Client = "none"
    /\ Session = "none"
    /\ Capabilities = <<>>
    /\ connectErr = [kind |-> "pending"]
    /\ result = [text |-> <<>>, err |-> "none"]
    /\ FilterNotStarted

Next ==
    \/ Connect_Validate
    \/ Connect_Dial
    \/ cliLogin_NewSession
    \/ cliLogin_RequestSubsystem
    \/ cliLogin_Pipes
    \/ cliLogin_Write
    \/ cliLogin_Read
    \/ cliLogin_Return
    \/ Connect_Hello
    \/ Run_Write
    \/ Run_Read
    \/ Run_Return
    \/ Client_ConnectFailed
    \/ Client_WriteCapabilities
    \/ Client_GetRPCPayload
    \/ Disconnect_Run
    \/ Disconnect_SessionClose
    \/ Disconnect_ClientClose

Spec == Init /\ [][Next]_vars

----------------------------------------------------------------------------
(* enhancedFilter and main's use of it *)

\* the tokens of the decoder: a start tag or an end tag with its name, or
\* character data with its text
StartElement(name) == [kind |-> "start", value |-> name]
EndElement(name) == [kind |-> "end", value |-> name]
CharData(text) == [kind |-> "text", value |-> text]

\* a piece written to a buffer: a token's text or a line feed, with the
\* position in xmlData of the token it was written for (0: for none)
Piece(token, at) == [kind |-> token.kind, value |-> token.value, at |-> at]
LineFeed(at) == [kind |-> "nl", value |-> <<>>, at |-> at]

\* xmlMarshalStartElement for a start tag without attributes, the
\* "</%s>" of an end tag, and the text of character data
RenderOne(p) ==
    CASE p.kind = "start" -> <<"<">> \o p.value \o <<">">>
      [] p.kind = "end"   -> <<"<", "/">> \o p.value \o <<">">>
      [] p.kind = "text"  -> p.value
      [] p.kind = "nl"    -> <<"\n">>

\* the text of a buffer (String())
RECURSIVE Render(_)
Render(pieces) ==
    IF pieces = <<>> THEN <<>>
    ELSE RenderOne(pieces[1]) \o Render(Drop(pieces, 1))

\* path[len(path)-1] and predicate[1]
targetElement == parsed.path[Len(parsed.path)]
predicatePrefix == parsed.predicate[2]

\* "index"
indexName == <<"i", "n", "d", "e", "x">>

\* the end tags written for the stack after the loop, innermost first
RECURSIVE ForceClose(_)
ForceClose(st) ==
    IF st = <<>> THEN <<>>
    ELSE << Piece(EndElement(st[Len(st)]), 0), LineFeed(0) >>
         \o ForceClose(Take(st, Len(st) - 1))

\* main calls enhancedFilter, which parses the filter: on an error it
\* returns "" to main, and predicate[1] of a one-term predicate panics
enhancedFilter_Parse ==
    /\ pc = "enhancedFilter"
    /\ parsed' = parseXPathFilter(filter)
    /\ IF parsed'.err # "nil"
       THEN /\ mainOutput' = <<>>
            /\ pc' = "filtered"
            /\ UNCHANGED exitAt
       ELSE IF Len(parsed'.predicate) < 2
            THEN /\ Fatal("panic")
                 /\ UNCHANGED mainOutput
            ELSE /\ pc' = "Token"
                 /\ UNCHANGED <<mainOutput, exitAt>>
    /\ UNCHANGED <<filter, xmlData, pos, output, currentChannel, inChannel,
                   keepChannel, depth, stack>>
    /\ UNCHANGED clientVars

\* one turn of the loop: decoder.Token() delivers a token
enhancedFilter_Token ==
    /\ pc = "Token"
    /\ pos < Len(xmlData)
    /\ LET i == pos + 1
           t == xmlData[i]
           written == currentChannel \o << Piece(t, i) >>
       IN  CASE t.kind = "start" /\ t.value = targetElement /\ ~inChannel ->
                  /\ inChannel' = TRUE
                  /\ depth' = 1
                  /\ currentChannel' = << Piece(t, i) >>
                  /\ pos' = i
                  /\ UNCHANGED <<output, keepChannel, stack>>
             [] t.kind = "start" /\ ~(t.value = targetElement /\ ~inChannel)
                                 /\ inChannel ->
                  /\ depth' = depth + 1
                  /\ IF t.value = indexName
                     THEN \* nextToken, _ := decoder.Token()
                          /\ pos' = Min(i + 1, Len(xmlData))
                          /\ IF i < Len(xmlData) /\ xmlData[i + 1].kind = "text"
                             THEN /\ keepChannel' =
                                       (keepChannel \/ HasPrefix(xmlData[i + 1].value,
                                                                 predicatePrefix))
                                  /\ currentChannel' =
                                       written \o << Piece(xmlData[i + 1], i + 1) >>
                             ELSE /\ currentChannel' = written
                                  /\ UNCHANGED keepChannel
                     ELSE /\ pos' = i
                          /\ currentChannel' = written
                          /\ UNCHANGED keepChannel
                  /\ UNCHANGED <<output, inChannel, stack>>
             [] t.kind = "start" /\ ~(t.value = targetElement /\ ~inChannel)
                                 /\ ~inChannel ->
                  /\ output' = output \o << Piece(t, i) >>
                  /\ stack' = Append(stack, t.value)
                  /\ pos' = i
                  /\ UNCHANGED <<currentChannel, inChannel, keepChannel, depth>>
             [] t.kind = "end" /\ inChannel ->
                  /\ currentChannel' = written
                  /\ depth' = depth - 1
                  /\ pos' = i
                  /\ IF depth - 1 = 0
                     THEN /\ inChannel' = FALSE
                          /\ output' = IF keepChannel
                                       THEN output \o written \o << LineFeed(i) >>
                                       ELSE output
                          /\ keepChannel' = FALSE
                     ELSE UNCHANGED <<inChannel, output, keepChannel>>
                  /\ UNCHANGED stack
             [] t.kind = "end" /\ ~inChannel ->
                  /\ IF Len(stack) > 0
                     THEN /\ output' = output \o << Piece(t, i), LineFeed(i) >>
                          /\ stack' = Take(stack, Len(stack) - 1)
                     ELSE UNCHANGED <<output, stack>>
                  /\ pos' = i
                  /\ UNCHANGED <<currentChannel, inChannel, keepChannel, depth>>
             [] t.kind = "text" ->
                  /\ IF inChannel
                     THEN /\ currentChannel' = written
                          /\ UNCHANGED output
                     ELSE /\ output' = output \o << Piece(t, i) >>
                          /\ UNCHANGED currentChannel
                  /\ pos' = i
                  /\ UNCHANGED <<inChannel, keepChannel, depth, stack>>
    /\ UNCHANGED <<pc, exitAt, filter, xmlData, parsed, mainOutput>>
    /\ UNCHANGED clientVars

\* decoder.Token() fails, at the end of the input or where it is malformed:
\* the loop ends, the stack is closed and main gets formatXML of the output
enhancedFilter_Return ==
    /\ pc = "Token"
    /\ pos = Len(xmlData)
    /\ output' = output \o ForceClose(stack)
    /\ mainOutput' = formatXML(Render(output'))
    /\ pc' = "filtered"
    /\ UNCHANGED <<exitAt, filter, xmlData, parsed, pos, currentChannel,
                   inChannel, keepChannel, depth, stack>>
    /\ UNCHANGED clientVars

----------------------------------------------------------------------------
(* The filter over replies of a few elements, and over filter expressions *)

\* most elements inside the root of a reply, and most pieces of a filter
MaxItems == 2
MaxFilterPieces == 3

\* an element with a text, and an element with a body
Leaf(name, text) == << StartElement(name), CharData(text), EndElement(name) >>
Elem(name, body) == << StartElement(name) >> \o body \o << EndElement(name) >>

\* the elements of a reply: targets c of every shape, and a wrapper b
Items ==
    { Elem(<<"c">>, Leaf(indexName, <<"L", "1">>)),
      Elem(<<"c">>, Leaf(indexName, <<"M">>)),
      Elem(<<"c">>, Leaf(<<"f">>, <<"L", "1">>) \o Leaf(indexName, <<"M">>)),
      Elem(<<"c">>, Leaf(indexName, <<"M">>)
                    \o Elem(<<"f">>, Leaf(indexName, <<"L", "1">>))),
      Elem(<<"c">>, Leaf(indexName, <<"L", "1">>)
                    \o Elem(<<"c">>, Leaf(indexName, <<"M">>))),
      Elem(<<"c">>, Elem(indexName, <<>>)),
      Elem(<<"c">>, Elem(indexName, Elem(<<"f">>, <<>>))),
      Leaf(<<"b">>, <<"t">>) }

\* the replies: a root a with at most k elements
Documents(k) == { Elem(<<"a">>, body) : body \in TextsOf(Items, k) }

\* what the decoder delivers of a reply that may end early or be malformed
\* from some token on
Delivered(k) ==
    UNION { { Take(d, n) : n \in 0..Len(d) } : d \in Documents(k) }

\* the filters the replies are run with: on index, on another field, with an
\* opaque predicate, without a predicate, without a path
filterPath == <<"/", "a", "/", "c">>
filterOnIndex == filterPath \o <<"[">> \o startWith \o indexName
                            \o <<",", "'", "L", "'", ")", "]">>
filterOnField == filterPath \o <<"[">> \o startWith
                            \o <<"f", ",", "'", "L", "'", ")", "]">>
filterOpaque == filterPath \o <<"[", "x", "]">>
filterNoPredicate == <<"/", "a", "/", "b", "/", "c">>
filterNoPath == <<"[">> \o startWith \o <<"x", ",", "'", "y", "'", ")", "]">>
Filters ==
    { filterOnIndex, filterOnField, filterOpaque, filterNoPredicate,
      filterNoPath }

\* the pieces other filter expressions are built from
FilterPieces ==
    { <<"/">>, <<"a">>, <<"[">>, startWith, <<"x">>, <<",">>,
      <<"'", "y", "'">>, <<")">>, <<"]">>, <<" ">> }

\* the reply and the filter of a run: every reply with the named filters,
\* and one reply with every other filter; main filters under a filter
\* that is not empty
FilterRuns ==
    (Delivered(MaxItems) \X Filters)
    \cup ({ Elem(<<"a">>, Leaf(<<"x">>, <<"t">>)) }
          \X (TextsOf(FilterPieces, MaxFilterPieces) \ { <<>> }))

InitFilter ==
    /\ pc = "enhancedFilter"
    /\ caller = "none"
    /\ arg = <<>>
    /\ SshIn = <<>>
    /\ SshOut = <<>>
    /\ SshOutEOF = FALSE
    /\ peerSent = <<>>
    /\ loopStart = 0
    /\ responseBuf = <<>>
    /\ readErr = "nil"
    /\ readN = 0
    /\ readLoops = 0
    /\ reply = [text |-> <<>>, err |-> "none", to |-> "none"]
    /\ exitAt = ""
    /\ Ip = <<>>
    /\ Port = <<>>
    /\ Client = "closed"
    /\ Session = "closed"
    /\ Capabilities = <<>>
    /\ connectErr = [kind |-> "nil"]
    /\ \E run \in FilterRuns : xmlData = run[1] /\ filter = run[2]
    /\ result = [text |-> Render(xmlData), err |-> "nil"]
    /\ mainOutput = Render(xmlData)
    /\ parsed = [predicate |-> <<>>, path |-> <<>>, err |-> "none"]
    /\ pos = 0
    /\ output = <<>>
    /\ currentChannel = <<>>
    /\ inChannel = FALSE
    /\ keepChannel = FALSE
    /\ depth = 0
    /\ stack = <<>>

NextFilter ==
    \/ enhancedFilter_Parse
    \/ enhancedFilter_Token
    \/ enhancedFilter_Return

SpecFilter == InitFilter /\ [][NextFilter]_vars

----------------------------------------------------------------------------
(* Connect up to the dial, on any address and port *)

\* most segments of an address handed to Connect
MaxIpSegments == 5

\* the segments addresses are built from
IpSegments ==
    { <<"1">>, <<"2", "5", "5">>, <<"2", "5", "6">>, <<"x">>, <<>>,
      <<"-", "1">>, <<"+", "1">> }

\* the addresses of at most k segments
RECURSIVE IpTexts(_)
IpTexts(k) ==
    IF k = 1 THEN IpSegments
    ELSE IpTexts(k - 1)
         \cup { t \o <<".">> \o g : t \in IpTexts(k - 1), g \in IpSegments }

InitConnect ==
    /\ pc = "Connect"
    /\ caller = "none"
    /\ arg = <<>>
    /\ SshIn = <<>>
    /\ SshOut = <<>>
    /\ SshOutEOF = FALSE
    /\ peerSent = <<>>
    /\ loopStart = 0
    /\ responseBuf = <<>>
    /\ readErr = "nil"
    /\ readN = 0
    /\ readLoops = 0
    /\ reply = [text |-> <<>>, err |-> "none", to |-> "none"]
    /\ exitAt = ""
    /\ Ip \in IpTexts(MaxIpSegments)
    /\ Port \in PortInputs
    /\ Client = "none"
    /\ Session = "none"
    /\ Capabilities = <<>>
    /\ connectErr = [kind |-> "pending"]
    /\ result = [text |-> <<>>, err |-> "none"]
    /\ FilterNotStarted

NextConnect ==
    \/ Connect_Validate
    \/ Connect_Dial
    \/ Client_ConnectFailed

SpecConnect == InitConnect /\ [][NextConnect]_vars

----------------------------------------------------------------------------
(* A single call of Run on a connected Endpoint, with a scripted peer *)

InitRun ==
    /\ pc = "Run_write"
    /\ caller = "test"
    /\ arg \in Texts(MaxPayloadPieces)
    /\ SshIn = <<>>
    /\ peerSent \in Texts(MaxStreamPieces)
    /\ SshOut = peerSent
    /\ SshOutEOF = FALSE
    /\ loopStart = 0
    /\ responseBuf = <<>>
    /\ readErr = "nil"
    /\ readN = 0
    /\ readLoops = 0
    /\ reply = [text |-> <<>>, err |-> "none", to |-> "none"]
    /\ exitAt = ""
    /\ Ip = <<>>
    /\ Port = <<>>
    /\ Client = "open"
    /\ Session = "open"
    /\ Capabilities = <<>>
    /\ connectErr = [kind |-> "nil"]
    /\ result = [text |-> <<>>, err |-> "none"]
    /\ FilterNotStarted

NextRun ==
    \/ Run_Write
    \/ Run_Read
    \/ Run_Return

SpecRun == InitRun /\ [][NextRun]_vars

\* A single call of Run whose own steps are taken: the write comes back and
\* the return follows the break of the loop.  A Read is the peer's to
\* answer: it may block, or return zero bytes and no error, for ever.
SpecRunFair ==
    /\ InitRun
    /\ [][NextRun]_vars
    /\ WF_vars(Run_Write)
    /\ WF_vars(Run_Return)

----------------------------------------------------------------------------
(* Properties of a single Run (checked under SpecRun) *)

\* the message Run wrote to the outbound stream
Written == SshIn[Len(SshIn)].data

\* the inbound bytes consumed since the current read loop began
Consumed == SubSeq(peerSent, loopStart + 1, Len(peerSent) - Len(SshOut))

\* Run has returned to its caller
Returned == pc = "done" /\ reply.to = "test"

\* C1: Run writes the payload unchanged when it contains the sentinel anywhere,
\* and the payload followed by one sentinel otherwise; a payload ending in the
\* sentinel gets no second one.
C1_RunWritesPayloadOrAppends ==
    SshIn # <<>> =>
        /\ Len(SshIn) = 1
        /\ Contains(arg, delimiter) => Written = arg
        /\ ~Contains(arg, delimiter) => Written = arg \o delimiter
        /\ HasSuffix(arg, delimiter) => Written = arg

\* a payload with the sentinel in its middle has been written
C1_Witness ==
    /\ SshIn # <<>>
    /\ Contains(arg, delimiter)
    /\ ~HasSuffix(arg, delimiter)
    /\ Written = arg

\* C2 as stated: whatever the payload, the written message ends with the
\* sentinel and not with two sentinels in a row.
C2_AnyPayloadEndsInOneSentinel ==
    SshIn # <<>> =>
        /\ HasSuffix(Written, delimiter)
        /\ ~HasSuffix(Written, delimiter \o delimiter)

\* C2 amended: when the payload does not contain the sentinel, or ends with
\* the sentinel but not with two in a row, the written message ends with the
\* sentinel and not with two in a row; and a payload that contains the
\* sentinel is written as it is, whatever its end.
C2_LegitimatePayloadEndsInOneSentinel ==
    SshIn # <<>> =>
        /\ ( \/ ~Contains(arg, delimiter)
             \/ /\ HasSuffix(arg, delimiter)
                /\ ~HasSuffix(arg, delimiter \o delimiter) )
           => /\ HasSuffix(Written, delimiter)
              /\ ~HasSuffix(Written, delimiter \o delimiter)
        /\ Contains(arg, delimiter) => Written = arg

\* a payload with a body and one final sentinel has been written
C2_Witness ==
    /\ SshIn # <<>>
    /\ HasSuffix(arg, delimiter)
    /\ ~HasSuffix(arg, delimiter \o delimiter)
    /\ Len(arg) > Len(delimiter)
    /\ HasSuffix(Written, delimiter)

\* C3: while Run reads, the accumulated buffer holds every byte read so far and
\* no sentinel; Run stops at the first read after which the buffer contains
\* the sentinel, however the peer's bytes are cut into reads, and returns all
\* the bytes read, sentinel included.
C3_ReadsUntilSentinelInBuffer ==
    /\ pc \in {"Run_read", "Run_ret"} => responseBuf = Consumed
    /\ pc = "Run_read" => ~Contains(responseBuf, delimiter)
    /\ (pc = "Run_ret" /\ readErr # "EOF") =>
          /\ readN > 0
          /\ Contains(responseBuf, delimiter)
          /\ ~Contains(Take(responseBuf, Len(responseBuf) - readN), delimiter)
    /\ Returned => reply.text = Consumed
    /\ (Returned /\ readErr # "EOF") => Contains(reply.text, delimiter)

\* Run has returned a reply whose sentinel came in two reads, cut after its
\* third character
C3_Witness ==
    /\ Returned
    /\ readN = 3
    /\ HasSuffix(reply.text, delimiter)
    /\ Len(reply.text) > Len(delimiter)
    /\ readErr = "nil"

\* C4: when end-of-stream comes before any sentinel, Run returns the bytes
\* read so far, those delivered with the end-of-stream included, and a nil
\* error; end-of-stream never ends the process.
C4_EndOfStreamYieldsPartialText ==
    /\ readErr = "EOF" => pc # "exited"
    /\ (Returned /\ readErr = "EOF" /\ ~Contains(Consumed, delimiter)) =>
          /\ reply.text = Consumed
          /\ reply.err = "nil"

\* Run has returned a partial text whose last bytes came with the
\* end-of-stream
C4_Witness ==
    /\ Returned
    /\ readErr = "EOF"
    /\ readN > 0
    /\ reply.text = peerSent
    /\ reply.text # <<>>
    /\ ~Contains(reply.text, delimiter)
    /\ reply.err = "nil"

\* C5 as stated: a read fault during Run does not end the process inside Run
\* (Run returns a non-nil error instead).
C5_ReadFaultIsReturned ==
    readErr = "fault" => (pc # "exited" /\ exitAt = "")

----------------------------------------------------------------------------
(* Properties of a client run (checked under Spec) *)

\* C6 as stated: every failure of Connect is a returned error.  A failed dial
\* returns an error naming host and port, with no channel opened and no hello
\* written; a refused subsystem request does not end the process, it returns
\* an error with no hello written.
C6_ConnectFailuresAreReturned ==
    /\ connectErr.kind = "dial" =>
          /\ connectErr.ip = Ip /\ connectErr.port = Port
          /\ Session = "none"
          /\ SshIn = <<>>
    /\ exitAt # "cliLogin: subsystem refused"
    /\ connectErr.kind = "pending" => pc # "exited"

\* the session's state, in the terms of the lifecycle
State ==
    IF pc = "exited" \/ connectErr.kind \notin {"pending", "nil"} THEN "Faulted"
    ELSE IF Session = "closed" THEN "Closed"
    ELSE IF connectErr.kind = "nil" THEN "Ready"
    ELSE IF SshIn # <<>> THEN "HandshakeSent"
    ELSE IF pc = "Connect" THEN "Disconnected"
    ELSE "Authenticating"

\* the lifecycle's transitions
Successors(st) ==
    CASE st = "Disconnected"  -> {"Disconnected", "Authenticating", "Faulted"}
      [] st = "Authenticating" -> {"Authenticating", "HandshakeSent", "Faulted"}
      [] st = "HandshakeSent"  -> {"HandshakeSent", "Ready", "Faulted"}
      [] st = "Ready"          -> {"Ready", "Closed", "Faulted"}
      [] st = "Closed"         -> {"Closed"}
      [] st = "Faulted"        -> {"Faulted"}

\* this step writes a message from the given call site
Writes(site) ==
    /\ Len(SshIn') = Len(SshIn) + 1
    /\ SshIn'[Len(SshIn')].by = site

\* this step is a read on the inbound stream: it consumes bytes of the peer,
\* meets the end-of-stream, or changes the read loop's n or err (which a
\* write resets)
Reads ==
    \/ Len(SshOut') < Len(SshOut)
    \/ SshOutEOF' # SshOutEOF
    \/ /\ SshIn' = SshIn
       /\ (readErr' # readErr \/ readN' # readN)

\* some message from the given call site has been written
HasWritten(site) == \E i \in 1..Len(SshIn) : SshIn[i].by = site

\* what every step of a client run does, but for the rule of the close request
LifecycleStep ==
    /\ State' \in Successors(State)
    /\ Writes("runNetconfClient") =>
          /\ State = "Ready"
          /\ reply.to = "Connect"
          /\ HasWritten("cliLogin") /\ HasWritten("Connect")
    /\ Session = "closed" => (SshIn' = SshIn /\ ~Reads)
    /\ State = "Faulted" => SshIn' = SshIn
    /\ readErr' = "fault" => State' = "Faulted"

\* C7 as stated: the lifecycle is followed in order, the caller's request is
\* written only in Ready after the hello exchange, the close request is
\* written only after the caller's request has been answered, nothing is
\* written or read once the channel is closed, and a fault is terminal.
C7_CloseOnlyAfterRequestAnswered ==
    [][ /\ LifecycleStep
        /\ Writes("Disconnect") =>
              /\ State = "Ready"
              /\ HasWritten("runNetconfClient")
              /\ reply.to = "runNetconfClient" ]_vars

\* C7 amended: as stated, but the close request is written in Ready after
\* Connect has completed, and after the caller's request has been answered
\* only when that request was written at all.
C7_Lifecycle ==
    [][ /\ LifecycleStep
        /\ Writes("Disconnect") =>
              /\ State = "Ready"
              /\ reply.to \in {"Connect", "runNetconfClient"}
              /\ HasWritten("runNetconfClient") => reply.to = "runNetconfClient" ]_vars

\* the whole lifecycle has been run: four messages written, the session Closed
C7_Witness ==
    /\ pc = "returned"
    /\ State = "Closed"
    /\ Len(SshIn) = 4
    /\ SshIn[3].by = "runNetconfClient"
    /\ SshIn[4].by = "Disconnect"

\* C8 as stated: when Connect has returned successfully, one hello has been
\* written, nothing else, and one read loop has been run.
C8_OneHelloOneHandshakeRead ==
    (connectErr.kind = "nil" /\ pc = "WriteCapabilities") =>
        /\ Len(SshIn) = 1
        /\ readLoops = 1

\* the request last written has been answered: its read loop has seen the
\* sentinel or end-of-stream
Answered == Contains(responseBuf, delimiter) \/ readErr = "EOF"

\* C9: a message is written only when every earlier one has been answered, and
\* the inbound stream is read only while the last message written is not.
C9_OneOutstandingRequest ==
    [][ /\ Len(SshIn') > Len(SshIn) =>
              /\ Len(SshIn') = Len(SshIn) + 1
              /\ SshIn # <<>> => Answered
              /\ readLoops' = Len(SshIn')
        /\ Reads => (SshIn # <<>> /\ ~Answered /\ readLoops = Len(SshIn)) ]_vars

\* the third message is being answered, part of its reply read
C9_Witness ==
    /\ Len(SshIn) = 3
    /\ pc = "Run_read"
    /\ responseBuf # <<>>
    /\ ~Answered

\* C10: the channel is closed only after the close request has been written
\* by Run and Run has returned (sentinel or end-of-stream), the connection
\* only after the channel; once that Run has returned both get closed,
\* whatever the reply.
C10_DisconnectOrder ==
    /\ Session = "closed" =>
          /\ SshIn # <<>>
          /\ SshIn[Len(SshIn)] = [by |-> "Disconnect", data |-> closePayload]
          /\ reply.to = "Disconnect"
          /\ Answered
    /\ Client = "closed" => Session = "closed"
    /\ reply.to = "Disconnect" =>
          /\ pc \in {"Session_Close", "Client_Close", "returned"}
          /\ pc = "Client_Close" => (Session = "closed" /\ Client = "open")
          /\ pc = "returned" => (Session = "closed" /\ Client = "closed")
    /\ pc = "returned" => reply.to = "Disconnect"

\* Disconnect has closed both after an end-of-stream with no reply
C10_Witness ==
    /\ pc = "returned"
    /\ reply = [text |-> <<>>, err |-> "nil", to |-> "Disconnect"]
    /\ readErr = "EOF"
    /\ Session = "closed"
    /\ Client = "closed"

\* the number of inbound bytes read so far
NumRead == Len(peerSent) - Len(SshOut)

\* C11: when cliLogin's read loop is over the capability record becomes the
\* bytes read from the inbound stream so far, as they came; no other step
\* changes it; after a successful Connect it is the peer's bytes up to the
\* read that completed the first sentinel, or all of them at end-of-stream.
C11_CapabilitiesAreHandshakeBytes ==
    [][ /\ pc = "cliLogin_ret" => Capabilities' = Take(peerSent, NumRead)
        /\ pc # "cliLogin_ret" => Capabilities' = Capabilities
        /\ connectErr'.kind = "nil" =>
              /\ Capabilities' = Take(peerSent, Len(Capabilities'))
              /\ Contains(Capabilities', delimiter) \/ Capabilities' = peerSent
      ]_vars

\* a client run is over, the record still the handshake's reply although the
\* peer sent more after it
C11_Witness ==
    /\ pc = "returned"
    /\ Len(SshIn) = 4
    /\ HasSuffix(Capabilities, delimiter)
    /\ Len(Capabilities) > Len(delimiter)
    /\ Len(Capabilities) < Len(peerSent)

----------------------------------------------------------------------------
(* Properties of the validation (checked under SpecConnect) *)

\* a text is a decimal numeral: an optional sign and one or more digits
IsNumeral(t) ==
    \/ Len(t) >= 1 /\ \A i \in 1..Len(t) : t[i] \in Digits
    \/ /\ Len(t) >= 2
       /\ t[1] \in {"+", "-"}
       /\ \A i \in 2..Len(t) : t[i] \in Digits

\* the integer a numeral stands for
NumeralValue(t) ==
    IF t[1] = "-" THEN 0 - DecVal(Drop(t, 1))
    ELSE IF t[1] = "+" THEN DecVal(Drop(t, 1))
    ELSE DecVal(t)

\* the number of dots of a text
NumDots(t) == Cardinality({ i \in 1..Len(t) : t[i] = "." })

\* the k-th dot-separated segment of a text
Segment(t, k) ==
    LET dots  == { i \in 1..Len(t) : t[i] = "." }
        before(i) == Cardinality({ j \in dots : j < i })
    IN  SelectSeq([i \in 1..Len(t) |-> IF t[i] # "." /\ before(i) = k - 1
                                       THEN t[i] ELSE "."],
                  LAMBDA c : c # ".")

\* four dot-separated segments, each an integer in 0..255
IsDottedQuad(t) ==
    /\ NumDots(t) = 3
    /\ \A k \in 1..4 :
          /\ IsNumeral(Segment(t, k))
          /\ NumeralValue(Segment(t, k)) \in 0..255

\* C19: Connect's first step rejects the Endpoint with an error, nothing
\* dialled, exactly when the address is not four dot-separated integers in
\* 0..255; otherwise it goes on to dial, with the port unchanged when it is
\* numeric and the default port when it is not.
C19_AddressRejectedPortDefaulted ==
    [][ /\ pc = "Connect" =>
              /\ pc' = "Connect_failed" <=> ~IsDottedQuad(Ip)
              /\ pc' = "Connect_failed" =>
                    /\ connectErr'.kind \notin {"pending", "nil"}
                    /\ Client' = "none"
              /\ IsDottedQuad(Ip) =>
                    /\ pc' = "Dial"
                    /\ connectErr'.kind = "pending"
                    /\ IsNumeral(Port) => Port' = Port
                    /\ ~IsNumeral(Port) => Port' = <<"2", "2">>
        /\ Client' # "none" => IsDottedQuad(Ip)
        /\ Ip' = Ip
      ]_vars

\* an address with a signed segment and a non-numeric port has been accepted,
\* the port defaulted
C19_Witness ==
    /\ pc = "Dial"
    /\ Ip = <<"1", ".", "2", "5", "5", ".", "+", "1", ".", "1">>
    /\ Port = <<"2", "2">>
    /\ connectErr.kind = "pending"

----------------------------------------------------------------------------
(* Properties of the filter (checked under SpecFilter) *)

\* the filter has been parsed
Parsed == pc # "enhancedFilter"

\* the filter has no "[", and the filter has nothing but "/" and blanks before
\* its first "["
NoBracket(f) == \A i \in 1..Len(f) : f[i] # "["
NoPathBeforeBracket(f) ==
    \E i \in 1..Len(f) :
        /\ f[i] = "["
        /\ \A k \in 1..(i - 1) : f[k] \in {"/", " "}

\* C15: parseXPathFilter returns the error "no predicate found" for a filter
\* without a "[" and the error "empty path" for a filter whose path before the
\* "[" is empty after trimming, and neither a predicate nor a path with them.
C15_ParseErrors ==
    Parsed =>
        /\ NoBracket(filter) =>
              parsed = ParseError("no predicate found in filter")
        /\ NoPathBeforeBracket(filter) => parsed = ParseError("empty path")

\* C16: when the filter does not parse, main's output is still the reply it
\* got from runNetconfClient.
C16_ParseFailureKeepsReply ==
    (pc = "filtered" /\ parsed.err # "nil") => mainOutput = result.text

\* the text between the brackets of a filter is not of the form start-with(
OpaquePredicate(f) ==
    /\ ~NoBracket(f)
    /\ ~HasPrefix(Trim(Drop(f, Index(f, "[")), {"[", "]"}), startWith)

\* C17: a filter whose predicate is not a start-with parses as one opaque
\* term, and the filter runs to its end with it without a crash.
C17_OpaquePredicateDoesNotCrash ==
    (Parsed /\ OpaquePredicate(filter)) =>
        /\ parsed.err = "nil"
        /\ Len(parsed.predicate) = 1
        /\ pc # "exited"

\* the loop runs or has run with a start-with filter
Filtering ==
    /\ pc \in {"Token", "filtered"}
    /\ parsed.err = "nil"

\* the number of elements of a target subtree that are open after n tokens
\* of the input, 0 outside the target subtrees
RECURSIVE OpenInSubtree(_)
OpenInSubtree(n) ==
    IF n = 0 THEN 0
    ELSE LET d == OpenInSubtree(n - 1)
             t == xmlData[n]
         IN  IF d = 0
             THEN IF t.kind = "start" /\ t.value = targetElement THEN 1 ELSE 0
             ELSE CASE t.kind = "start" -> d + 1
                    [] t.kind = "end"   -> d - 1
                    [] t.kind = "text"  -> d

\* token k of the input lies outside every target subtree
Outside(k) == OpenInSubtree(k - 1) = 0 /\ OpenInSubtree(k) = 0

\* the tokens from s to n of the input, as pieces
PiecesOf(s, n) == [k \in 1..(n - s + 1) |-> Piece(xmlData[s + k - 1], s + k - 1)]

\* C20: inside a target subtree depth is the number of open elements of the
\* subtree and the collecting buffer holds every token of the subtree so
\* far; collecting is on exactly from the target's start tag to its own end
\* tag, and keep is false outside it.
C20_DepthIsOpenElements ==
    (Filtering /\ pc = "Token") =>
        /\ inChannel <=> OpenInSubtree(pos) > 0
        /\ inChannel =>
              /\ depth = OpenInSubtree(pos)
              /\ \E s \in 1..pos :
                    /\ OpenInSubtree(s - 1) = 0
                    /\ \A k \in s..pos : OpenInSubtree(k) > 0
                    /\ currentChannel = PiecesOf(s, pos)
        /\ ~inChannel => ~keepChannel

\* the names of the start tags outside the target subtrees that are open
\* after n tokens of the input
RECURSIVE OpenOutside(_)
OpenOutside(n) ==
    IF n = 0 THEN <<>>
    ELSE LET st == OpenOutside(n - 1)
             t == xmlData[n]
         IN  IF ~Outside(n) THEN st
             ELSE CASE t.kind = "start" -> Append(st, t.value)
                    [] t.kind = "end"   -> Take(st, Len(st) - 1)
                    [] t.kind = "text"  -> st

\* C14: the pieces of the output written for tokens outside the target
\* subtrees are those tokens, each once and in their order, and the stack
\* holds the start tags among them that are still open.
C14_OutsideEventsCopiedInOrder ==
    (Filtering /\ pc = "Token") =>
        /\ SelectSeq(output, LAMBDA p : p.kind # "nl" /\ Outside(p.at))
             = SelectSeq(PiecesOf(1, pos), LAMBDA p : Outside(p.at))
        /\ stack = OpenOutside(pos)

\* the number of elements open after n tokens of the input
Open(n) ==
    Cardinality({ k \in 1..n : xmlData[k].kind = "start" })
    - Cardinality({ k \in 1..n : xmlData[k].kind = "end" })

\* the input is a whole document: one element, closed by the last token
Complete ==
    /\ xmlData # <<>>
    /\ Open(Len(xmlData)) = 0
    /\ \A n \in 1..(Len(xmlData) - 1) : Open(n) > 0

\* the start tags of the children of the element that starts at token s
Children(s) ==
    { k \in (s + 1)..Len(xmlData) :
        /\ xmlData[k].kind = "start"
        /\ Open(k) = Open(s) + 1
        /\ \A j \in s..k : Open(j) >= Open(s) }

\* the text of the element that starts at token k, empty without one
TextOf(k) ==
    IF k < Len(xmlData) /\ xmlData[k + 1].kind = "text"
    THEN xmlData[k + 1].value
    ELSE <<>>

\* the target elements: the start tags of the target subtrees
Targets ==
    { s \in 1..Len(xmlData) :
        /\ xmlData[s] = StartElement(targetElement)
        /\ OpenInSubtree(s - 1) = 0 }

\* the target element that token k, not outside, belongs to
TargetOf(k) == CHOOSE s \in Targets : s <= k /\ \A r \in Targets : r <= k => r <= s

\* the predicate start-with(field, prefix) is true on the target element at s
Matches(s, field, prefix) ==
    \E k \in Children(s) :
        /\ xmlData[k].value = field
        /\ HasPrefix(TextOf(k), prefix)

\* every element named as the target has exactly one child named index, and
\* that child has a text
OneIndexChild ==
    \A s \in 1..Len(xmlData) :
        xmlData[s] = StartElement(targetElement) =>
            /\ Cardinality({ k \in Children(s) : xmlData[k].value = indexName }) = 1
            /\ \A k \in Children(s) :
                  xmlData[k].value = indexName => TextOf(k) # <<>>

\* the filter has run to its end with a start-with predicate
Filtered ==
    /\ pc = "filtered"
    /\ parsed.err = "nil"

\* C12: for a document whose target elements have one child index each, with
\* a text, and a filter start-with(index, L), the output holds of the target
\* subtrees exactly the tokens of those whose index text begins with L, in
\* document order.
C12_KeepsExactlyMatchingTargets ==
    (Filtered /\ parsed.predicate[1] = indexName /\ Complete /\ OneIndexChild) =>
        SelectSeq(output, LAMBDA p : /\ p.kind # "nl"
                                     /\ p.at # 0
                                     /\ ~Outside(p.at))
          = SelectSeq(PiecesOf(1, Len(xmlData)),
                      LAMBDA p : /\ ~Outside(p.at)
                                 /\ Matches(TargetOf(p.at), indexName,
                                            predicatePrefix))

\* C13: for a filter start-with(F, L) a target element is in the output iff
\* a child named F in it has a text that begins with L.
C13_PredicateOnNamedField ==
    (Filtered /\ Complete) =>
        \A s \in Targets :
            (\E i \in 1..Len(output) : output[i] = Piece(xmlData[s], s))
            <=> Matches(s, parsed.predicate[1], predicatePrefix)

\* the tags among the pieces are properly nested: every end tag closes the
\* last start tag still open, and none is left open
RECURSIVE Nested(_, _)
Nested(pieces, open) ==
    IF pieces = <<>> THEN open = <<>>
    ELSE LET p == pieces[1]
             rest == Drop(pieces, 1)
         IN  CASE p.kind = "start" -> Nested(rest, Append(open, p.value))
               [] p.kind = "end" ->
                     /\ open # <<>>
                     /\ open[Len(open)] = p.value
                     /\ Nested(rest, Take(open, Len(open) - 1))
               [] p.kind \in {"text", "nl"} -> Nested(rest, open)

\* C18: on an input that ends early or is malformed from any token on, the
\* filter comes to its end, and the tags of its output are properly nested
\* with every start tag closed.
C18_TruncatedInputIsClosed ==
    /\ (pc = "Token" /\ parsed.err = "nil") => exitAt = ""
    /\ Filtered => Nested(output, <<>>)

----------------------------------------------------------------------------
(* Over-read and termination of Run (checked under SpecRun, SpecRunFair) *)

\* the number of places where the sentinel occurs in a text
Occurrences(t) ==
    Cardinality({ i \in 1..Len(t) :
                    /\ i + Len(delimiter) - 1 <= Len(t)
                    /\ SubSeq(t, i, i + Len(delimiter) - 1) = delimiter })

\* C21: when Run returns a text with the sentinel in it, the text ends with
\* the sentinel and holds it once, and no byte the peer sent after that
\* sentinel has been taken from the inbound stream.
C21_NothingReadPastSentinel ==
    (Returned /\ Contains(reply.text, delimiter)) =>
        /\ HasSuffix(reply.text, delimiter)
        /\ Occurrences(reply.text) = 1
        /\ HasSuffix(Consumed, delimiter)
        /\ SshOut = Drop(peerSent, Len(reply.text))

\* the inbound stream has delivered a sentinel or its end to Run's read loop
StreamDelivered ==
    /\ pc \in {"Run_read", "Run_ret", "done"}
    /\ readErr # "fault"
    /\ Contains(Consumed, delimiter) \/ readErr = "EOF"

\* C22: Run returns if and only if the inbound stream delivers a sentinel or
\* reaches its end: once it has, Run returns, and while it has not (the peer
\* silent, or its reads returning zero bytes and no error) Run stays in its
\* read loop.
C22_ReturnsIffDelivered ==
    /\ [](StreamDelivered => <>Returned)
    /\ [](Returned => StreamDelivered)
    /\ [](pc = "Run_read" => ~StreamDelivered)

\* Run is still in its loop after a read of zero bytes and no error that
\* followed a read with bytes
C22_Witness ==
    /\ pc = "Run_read"
    /\ readN = 0
    /\ readErr = "nil"
    /\ responseBuf # <<>>
    /\ SshOut # <<>>
    /\ ~StreamDelivered

====
